---- MODULE Spec2Model ----
(***************************************************************************)
(* NanoSploit: the hardware-in-the-loop emulator (core/hil_emulator.py)    *)
(* and the attack-chain replay (ops/attack_replay.py) as state machines.   *)
(*                                                                         *)
(* SpecHIL   one HILEmulator instance, its filesystem and its child        *)
(*           processes, driven through run().                              *)
(* SpecChain one AttackReplay instance (replay_chain called directly, or   *)
(*           automate_chain_replay on a chain file), or one               *)
(*           ScenarioBuilder instance in automate_red_team_workflow.       *)
(* SpecConc  two callers of run() on one HILEmulator instance.             *)
(*                                                                         *)
(* Text is a sequence of one-character strings, so that substring search   *)
(* and str.lower() are computed, not assumed. Risk scores are in tenths    *)
(* (9 stands for 0.9). A path is <<directory, base name>>; <<>> is None.   *)
(***************************************************************************)
EXTENDS Integers, Sequences, FiniteSets, TLC

VARIABLES
    \* ---- HILEmulator instance (hil_emulator.py:17-29)
    config,          \* the dict given to __init__
    arch,            \* self.arch
    firmware_path,   \* self.firmware_path
    payload_path,    \* self.payload_path
    fpga_enabled,    \* self.fpga_enabled
    \* ---- environment of the emulator
    files,           \* regular files that exist outside the sandboxes
    tempDirs,        \* sandbox directories that exist now
    dirFiles,        \* files inside sandbox directories
    nextDir,         \* names handed out by tempfile.mkdtemp so far
    procs,           \* child processes ever started, by pid: their state
    \* ---- the invocation of run() in progress
    pc,              \* position in run / _run_qemu
    runs,            \* invocations of run() started so far
    arg,             \* the payload argument of this invocation of run()
    temp_dir,        \* local temp_dir of _run_qemu (0: not assigned)
    qemu_cmd,        \* local qemu_cmd of _run_qemu
    proc,            \* local proc of _run_qemu (0: not assigned)
    exc,             \* exception raised in this invocation ("none")
    result,          \* local result of run / _run_qemu
    dirsCreated,     \* sandbox directories created by this invocation
    procsStarted,    \* child processes started by this invocation
    \* ---- AttackReplay instance (attack_replay.py:16-21)
    chain_steps,     \* self.chain_steps
    exploit_modules, \* the registry passed to replay_chain: registered types
    cpc,             \* position in replay_chain
    stepIdx,         \* steps of the for loop taken so far
    results,         \* local results of replay_chain
    calls,           \* module operations called so far, in order, with the
                     \* step they were called for and what simulate_attack returned
    chain_name,      \* self.chain_name
    source,          \* the chain file automate_chain_replay was given
    auto,            \* replay_chain was called by automate_chain_replay
    summary,         \* local summary of automate_chain_replay
    report,          \* the report file of the chain, as written
    reportFile,      \* the text of the report file, as JSON tokens
    ret,             \* what automate_chain_replay has returned
    \* ---- ScenarioBuilder instance (scenario_builder.py:16-22)
    scenario_name,   \* self.scenario_name
    devices,         \* self.devices
    attack_chain,    \* self.attack_chain
    spc,             \* position in automate_red_team_workflow
    plan,            \* local plan
    sIdx,            \* plan steps simulate_scenario has taken so far
    sresults,        \* local results of simulate_scenario
    sreport,         \* the scenario report file, as written
    verdict,         \* what validate_scenario returned last
    validations,     \* calls of validate_scenario so far
    \* ---- callers of run() on one shared emulator (SpecConc)
    tpc,             \* each caller's position in run / _run_qemu
    targ,            \* the payload each caller passed to run
    tseen,           \* the payload each caller's _run_qemu copied
    tdir,            \* each caller's local temp_dir (0: not assigned)
    \* ---- the logging module of the process and the instances in it (SpecLog)
    handler,         \* where the root logger writes: "none", "stderr", a file
    logExists,       \* the log files that exist
    logText,         \* the entries in each log file, in order
    insts,           \* the instances constructed so far
    lruns,           \* the runs each instance has logged
    got,             \* what the last get_logs call returned, and to whom
    \* ---- one call of PayloadGenerator.generate (SpecGen)
    gen_in,          \* the arguments of the call
    gen_out,         \* the bytes it returned
    gpc              \* position of the call

hilVars == <<config, arch, firmware_path, payload_path, fpga_enabled, files,
             tempDirs, dirFiles, nextDir, procs, pc, runs, arg, temp_dir,
             qemu_cmd, proc, exc, result, dirsCreated, procsStarted>>
chainVars == <<chain_steps, exploit_modules, cpc, stepIdx, results, calls>>
flowVars == <<chain_name, source, auto, summary, report, reportFile, ret>>
valVars == <<verdict, validations>>
scenVars == <<scenario_name, devices, attack_chain, spc, plan, sIdx, sresults,
              sreport, valVars>>
thrVars == <<tpc, targ, tseen, tdir>>
logVars == <<handler, logExists, logText, insts, lruns, got>>
genVars == <<gen_in, gen_out, gpc>>
opsVars == <<chainVars, flowVars, scenVars, thrVars, logVars, genVars>>
vars == <<hilVars, opsVars>>

-----------------------------------------------------------------------------
(* Bounds of the model *)

\* invocations of run() on the one emulator instance
MaxRuns == 2
\* words in the text a child process writes to its standard error
MaxWords == 2
\* steps of a chain
MaxSteps == 3
\* direct calls of validate_scenario before the workflow is started
MaxValidations == 1
\* instances constructed in one process
MaxInsts == 2
\* runs the instances of one process write log entries for, in all
MaxLogRuns == 2

-----------------------------------------------------------------------------
(* Text *)

UpperCase == <<"A","B","C","D","E","F","G","H","I","J","K","L","M",
               "N","O","P","Q","R","S","T","U","V","W","X","Y","Z">>
LowerCase == <<"a","b","c","d","e","f","g","h","i","j","k","l","m",
               "n","o","p","q","r","s","t","u","v","w","x","y","z">>

\* str.lower() on one character
LowerChar(c) ==
    IF \E i \in 1..Len(UpperCase) : UpperCase[i] = c
    THEN LowerCase[CHOOSE i \in 1..Len(UpperCase) : UpperCase[i] = c]
    ELSE c

\* str.lower()
Lower(s) == [i \in 1..Len(s) |-> LowerChar(s[i])]

\* pat in s
Contains(pat, s) ==
    \E i \in 0..(Len(s) - Len(pat)) :
        \A k \in 1..Len(pat) : s[i + k] = pat[k]

Segfault == <<"s","e","g","f","a","u","l","t">>
Panic == <<"p","a","n","i","c">>
ErrorTok == <<"e","r","r","o","r">>

\* what a child may write on standard error, word by word
Words == { Segfault,
           <<"P","A","N","I","C">>,
           <<"E","r","r","o","r">>,
           <<" ","o","k"," ">> }

RECURSIVE Texts(_)
Texts(n) ==
    IF n = 0 THEN {<<>>}
    ELSE Texts(n - 1) \cup { t \o w : t \in Texts(n - 1), w \in Words }

StderrTexts == Texts(MaxWords)

-----------------------------------------------------------------------------
(* Paths and dicts *)

NoPath == <<>>
FirmwareFile == <<"/fw", "a.bin">>
PayloadFile == <<"/pl", "p.bin">>
OtherPayload == <<"/pl", "a.bin">>
MissingFile == <<"/tmp", "gone.bin">>

\* os.path.basename
Basename(p) == p[2]
\* os.path.join(temp_dir, name)
Join(d, name) == <<d, name>>

NoResult == [none |-> TRUE]
\* key in d
Has(d, key) == key \in DOMAIN d
\* d.get(key, default)
Get(d, key, default) == IF key \in DOMAIN d THEN d[key] ELSE default

Archs == {"arm", "ARM", "riscv", "mips", "z80"}
\* str.lower() of the architecture names a configuration may carry
LowerArch(a) == IF a = "ARM" THEN "arm" ELSE a


SupportedArch(a) == a \in {"arm", "riscv", "mips"}

\* config.get("qemu_path", "qemu-system-arm")
QemuPath == "qemu-system-arm"

\* the binary _build_qemu_cmd selects
QemuBin(a) ==
    CASE a = "arm" -> QemuPath
      [] a = "riscv" -> "qemu-system-riscv32"
      [] a = "mips" -> "qemu-system-mips"

\* "<bin> -kernel <firmware> -append 'init=<payload>' -nographic"
BuildQemuCmd(firmware, payload) ==
    [bin |-> QemuBin(arch), kernel |-> firmware, init |-> payload]

NoCmd == [bin |-> "none"]

\* str(e) of the exception caught in _run_qemu
Message(e) ==
    CASE e = "PermissionError" -> "[Errno 13] Permission denied"
      [] e = "ValueError" -> "Unsupported arch for QEMU"
      [] e = "OSError" -> "[Errno 12] Cannot allocate memory"
      [] e = "TimeoutExpired" -> "Command timed out after 60 seconds"

ArtifactMissing_UnsetOnly(p) == p = NoPath

\* not path or not os.path.isfile(path)
ArtifactMissing(p) == p = NoPath \/ p \notin files

\* shutil.copy2(src, os.path.join(d, basename(src))) on the sandbox files
CopyInto(fs, d, src) ==
    { f \in fs : ~(f.dir = d /\ f.base = Basename(src)) }
        \cup { [dir |-> d, base |-> Basename(src), content |-> src] }

-----------------------------------------------------------------------------
(* Risk scorer *)

RiskCrash == 9
RiskError == 7
RiskBaseline == 2

CalculateRisk_Additive(res) ==
    LET stderr == Lower(Get(res, "stderr", <<>>))
    IN  (IF Contains(Segfault, stderr) \/ Contains(Panic, stderr)
         THEN RiskCrash ELSE 0)
        + (IF Contains(ErrorTok, stderr) THEN RiskError ELSE 0)
        + (IF ~Contains(Segfault, stderr) /\ ~Contains(Panic, stderr)
              /\ ~Contains(ErrorTok, stderr) THEN RiskBaseline ELSE 0)

CalculateRisk_NoLower(res) ==
    LET stderr == Get(res, "stderr", <<>>)
    IN  IF Contains(Segfault, stderr) \/ Contains(Panic, stderr) THEN RiskCrash
        ELSE IF Contains(ErrorTok, stderr) THEN RiskError
        ELSE RiskBaseline

\* HILEmulator._calculate_risk
CalculateRisk(res) ==
    LET stderr == Lower(Get(res, "stderr", <<>>))
    IN  IF Contains(Segfault, stderr) \/ Contains(Panic, stderr) THEN RiskCrash
        ELSE IF Contains(ErrorTok, stderr) THEN RiskError
        ELSE RiskBaseline

-----------------------------------------------------------------------------
(* HILEmulator: construction *)

ConfigFirmware == {NoPath, FirmwareFile, MissingFile}
ConfigPayload == {NoPath, PayloadFile}
RunPayload == {NoPath, OtherPayload, MissingFile}

\* a process that has not ended, one that ended unread, one that was waited for
Running == [state |-> "running"]
Reaped == [state |-> "reaped"]

InitHILVars ==
    /\ config \in [arch : Archs, firmware_path : ConfigFirmware,
                   payload_path : ConfigPayload, fpga_enabled : BOOLEAN]
    /\ arch = LowerArch(config.arch)
    /\ firmware_path = config.firmware_path
    /\ payload_path = config.payload_path
    /\ fpga_enabled = config.fpga_enabled
    /\ files = {FirmwareFile, PayloadFile, OtherPayload}
    /\ tempDirs = {}
    /\ dirFiles = {}
    /\ nextDir = 0
    /\ procs = <<>>
    /\ pc = "idle"
    /\ runs = 0
    /\ arg = NoPath
    /\ temp_dir = 0
    /\ qemu_cmd = NoCmd
    /\ proc = 0
    /\ exc = "none"
    /\ result = NoResult
    /\ dirsCreated = 0
    /\ procsStarted = 0

-----------------------------------------------------------------------------
(* HILEmulator.run and _run_qemu *)

\* run(payload), lines 39-44: store the payload, choose the backend
Run(payload) ==
    /\ pc \in {"idle", "returned", "raised"}
    /\ runs < MaxRuns
    /\ runs' = runs + 1
    /\ arg' = payload
    /\ payload_path' = IF payload # NoPath THEN payload ELSE payload_path
    /\ pc' = IF fpga_enabled THEN "fpga" ELSE "qemu"
    /\ temp_dir' = 0
    /\ qemu_cmd' = NoCmd
    /\ proc' = 0
    /\ exc' = "none"
    /\ result' = NoResult
    /\ dirsCreated' = 0
    /\ procsStarted' = 0
    /\ UNCHANGED <<config, arch, firmware_path, fpga_enabled, files, tempDirs,
                   dirFiles, nextDir, procs>>
    /\ UNCHANGED opsVars

RunFpga_Untagged ==
    /\ pc = "fpga"
    /\ result' = [stdout |-> <<"[MOCK] FPGA run of", payload_path, arch>>,
                  stderr |-> <<>>, returncode |-> 0, mode |-> "qemu"]
    /\ pc' = "score"
    /\ UNCHANGED <<config, arch, firmware_path, payload_path, fpga_enabled,
                   files, tempDirs, dirFiles, nextDir, procs, runs, temp_dir,
                   qemu_cmd, proc, exc, dirsCreated, procsStarted>>
    /\ UNCHANGED <<arg, opsVars>>

\* _run_fpga
RunFpga ==
    /\ pc = "fpga"
    /\ result' = [stdout |-> <<"[MOCK] FPGA run of", payload_path, arch>>,
                  stderr |-> <<>>, returncode |-> 0, mode |-> "fpga"]
    /\ pc' = "score"
    /\ UNCHANGED <<config, arch, firmware_path, payload_path, fpga_enabled,
                   files, tempDirs, dirFiles, nextDir, procs, runs, temp_dir,
                   qemu_cmd, proc, exc, dirsCreated, procsStarted>>
    /\ UNCHANGED <<arg, opsVars>>

\* _run_qemu, lines 55-59: the artifact checks, then tempfile.mkdtemp()
QemuEnter ==
    /\ pc = "qemu"
    /\ IF ArtifactMissing(firmware_path) \/ ArtifactMissing(payload_path)
       THEN /\ exc' = "FileNotFoundError"
            /\ pc' = "raised"
            /\ UNCHANGED <<tempDirs, nextDir, temp_dir, dirsCreated>>
       ELSE /\ nextDir' = nextDir + 1
            /\ temp_dir' = nextDir + 1
            /\ tempDirs' = tempDirs \cup {nextDir + 1}
            /\ dirsCreated' = dirsCreated + 1
            /\ pc' = "copy"
            /\ UNCHANGED exc
    /\ UNCHANGED <<config, arch, firmware_path, payload_path, fpga_enabled,
                   files, dirFiles, procs, runs, qemu_cmd, proc, result,
                   procsStarted>>
    /\ UNCHANGED <<arg, opsVars>>

\* lines 61-64: both copies succeed
QemuCopy ==
    /\ pc = "copy"
    /\ dirFiles' = CopyInto(CopyInto(dirFiles, temp_dir, firmware_path),
                            temp_dir, payload_path)
    /\ pc' = "build"
    /\ UNCHANGED <<config, arch, firmware_path, payload_path, fpga_enabled,
                   files, tempDirs, nextDir, procs, runs, temp_dir, qemu_cmd,
                   proc, exc, result, dirsCreated, procsStarted>>
    /\ UNCHANGED <<arg, opsVars>>

\* lines 63-64: a copy fails (unreadable source, full disk), the first copy
\* possibly already made
QemuCopyFails ==
    /\ pc = "copy"
    /\ \E firstDone \in BOOLEAN :
         dirFiles' = IF firstDone
                     THEN CopyInto(dirFiles, temp_dir, firmware_path)
                     ELSE dirFiles
    /\ exc' = "PermissionError"
    /\ pc' = "except"
    /\ UNCHANGED <<config, arch, firmware_path, payload_path, fpga_enabled,
                   files, tempDirs, nextDir, procs, runs, temp_dir, qemu_cmd,
                   proc, result, dirsCreated, procsStarted>>
    /\ UNCHANGED <<arg, opsVars>>

\* line 65 and _build_qemu_cmd
QemuBuild ==
    /\ pc = "build"
    /\ IF SupportedArch(arch)
       THEN /\ qemu_cmd' = BuildQemuCmd(Join(temp_dir, Basename(firmware_path)),
                                        Join(temp_dir, Basename(payload_path)))
            /\ pc' = "spawn"
            /\ UNCHANGED exc
       ELSE /\ exc' = "ValueError"
            /\ pc' = "except"
            /\ UNCHANGED qemu_cmd
    /\ UNCHANGED <<config, arch, firmware_path, payload_path, fpga_enabled,
                   files, tempDirs, dirFiles, nextDir, procs, runs, temp_dir,
                   proc, result, dirsCreated, procsStarted>>
    /\ UNCHANGED <<arg, opsVars>>

\* line 67: subprocess.Popen starts the child
QemuSpawn ==
    /\ pc = "spawn"
    /\ procs' = Append(procs, Running)
    /\ proc' = Len(procs) + 1
    /\ procsStarted' = procsStarted + 1
    /\ pc' = "wait"
    /\ UNCHANGED <<config, arch, firmware_path, payload_path, fpga_enabled,
                   files, tempDirs, dirFiles, nextDir, runs, temp_dir,
                   qemu_cmd, exc, result, dirsCreated>>
    /\ UNCHANGED <<arg, opsVars>>

\* line 67: subprocess.Popen raises (fork or exec of the shell fails)
QemuSpawnFails ==
    /\ pc = "spawn"
    /\ exc' = "OSError"
    /\ pc' = "except"
    /\ UNCHANGED <<config, arch, firmware_path, payload_path, fpga_enabled,
                   files, tempDirs, dirFiles, nextDir, procs, runs, temp_dir,
                   qemu_cmd, proc, result, dirsCreated, procsStarted>>
    /\ UNCHANGED <<arg, opsVars>>

\* the child the invocation waits for ends, having written text to stderr
ChildExit(text, rc) ==
    /\ pc = "wait"
    /\ procs[proc] = Running
    /\ procs' = [procs EXCEPT ![proc] =
                    [state |-> "exited", stderr |-> text, returncode |-> rc]]
    /\ UNCHANGED <<config, arch, firmware_path, payload_path, fpga_enabled,
                   files, tempDirs, dirFiles, nextDir, pc, runs, temp_dir,
                   qemu_cmd, proc, exc, result, dirsCreated, procsStarted>>
    /\ UNCHANGED <<arg, opsVars>>

\* a child nobody waits for any more ends; its output is read by no one
OrphanExit(i) ==
    /\ procs[i] = Running
    /\ ~(pc = "wait" /\ proc = i)
    /\ procs' = [procs EXCEPT ![i] =
                    [state |-> "exited", stderr |-> <<>>, returncode |-> 0]]
    /\ UNCHANGED <<config, arch, firmware_path, payload_path, fpga_enabled,
                   files, tempDirs, dirFiles, nextDir, pc, runs, temp_dir,
                   qemu_cmd, proc, exc, result, dirsCreated, procsStarted>>
    /\ UNCHANGED <<arg, opsVars>>

\* lines 68-76: communicate() returns within the timeout and reaps the child
QemuCommunicate ==
    /\ pc = "wait"
    /\ procs[proc].state = "exited"
    /\ result' = [stdout |-> <<"qemu output">>,
                  stderr |-> procs[proc].stderr,
                  returncode |-> procs[proc].returncode,
                  mode |-> "qemu"]
    /\ procs' = [procs EXCEPT ![proc] = Reaped]
    /\ pc' = "finally"
    /\ UNCHANGED <<config, arch, firmware_path, payload_path, fpga_enabled,
                   files, tempDirs, dirFiles, nextDir, runs, temp_dir,
                   qemu_cmd, proc, exc, dirsCreated, procsStarted>>
    /\ UNCHANGED <<arg, opsVars>>

\* line 68: communicate(timeout=60) raises TimeoutExpired; the child is left
\* as it is
QemuTimeout ==
    /\ pc = "wait"
    /\ procs[proc] = Running
    /\ exc' = "TimeoutExpired"
    /\ pc' = "except"
    /\ UNCHANGED <<config, arch, firmware_path, payload_path, fpga_enabled,
                   files, tempDirs, dirFiles, nextDir, procs, runs, temp_dir,
                   qemu_cmd, proc, result, dirsCreated, procsStarted>>
    /\ UNCHANGED <<arg, opsVars>>

\* lines 77-79: except Exception
QemuExcept ==
    /\ pc = "except"
    /\ result' = [error |-> Message(exc), mode |-> "qemu"]
    /\ pc' = "finally"
    /\ UNCHANGED <<config, arch, firmware_path, payload_path, fpga_enabled,
                   files, tempDirs, dirFiles, nextDir, procs, runs, temp_dir,
                   qemu_cmd, proc, exc, dirsCreated, procsStarted>>
    /\ UNCHANGED <<arg, opsVars>>

QemuFinally_SkipOnError ==
    /\ pc = "finally"
    /\ tempDirs' = IF exc = "none" THEN tempDirs \ {temp_dir} ELSE tempDirs
    /\ dirFiles' = IF exc = "none"
                   THEN { f \in dirFiles : f.dir # temp_dir } ELSE dirFiles
    /\ pc' = "score"
    /\ UNCHANGED <<config, arch, firmware_path, payload_path, fpga_enabled,
                   files, nextDir, procs, runs, temp_dir, qemu_cmd, proc, exc,
                   result, dirsCreated, procsStarted>>
    /\ UNCHANGED <<arg, opsVars>>

\* lines 80-81: finally: shutil.rmtree(temp_dir)
QemuFinally ==
    /\ pc = "finally"
    /\ tempDirs' = tempDirs \ {temp_dir}
    /\ dirFiles' = { f \in dirFiles : f.dir # temp_dir }
    /\ pc' = "score"
    /\ UNCHANGED <<config, arch, firmware_path, payload_path, fpga_enabled,
                   files, nextDir, procs, runs, temp_dir, qemu_cmd, proc, exc,
                   result, dirsCreated, procsStarted>>
    /\ UNCHANGED <<arg, opsVars>>

RunScore_SkipOnError ==
    /\ pc = "score"
    /\ result' = IF Has(result, "error") THEN result
                 ELSE [risk_score |-> CalculateRisk(result)] @@ result
    /\ pc' = "returned"
    /\ UNCHANGED <<config, arch, firmware_path, payload_path, fpga_enabled,
                   files, tempDirs, dirFiles, nextDir, procs, runs, temp_dir,
                   qemu_cmd, proc, exc, dirsCreated, procsStarted>>
    /\ UNCHANGED <<arg, opsVars>>

\* run, lines 45-47: score the result, attach the score, return
RunScore ==
    /\ pc = "score"
    /\ result' = [risk_score |-> CalculateRisk(result)] @@ result
    /\ pc' = "returned"
    /\ UNCHANGED <<config, arch, firmware_path, payload_path, fpga_enabled,
                   files, tempDirs, dirFiles, nextDir, procs, runs, temp_dir,
                   qemu_cmd, proc, exc, dirsCreated, procsStarted>>
    /\ UNCHANGED <<arg, opsVars>>



-----------------------------------------------------------------------------
(* AttackReplay.replay_chain with the MedicalIoTModule *)

\* chain steps as the chain file gives them; an absent key is an absent field
Steps ==
    { [device_type |-> "medical", device_name |-> "pump1", action |-> "exploit",
       vuln |-> [type |-> "buffer_overflow", location |-> "dose_control"]],
      [device_type |-> "medical", device_name |-> "pump2", action |-> "exploit",
       vuln |-> [type |-> "buffer_overflow"]],
      [device_type |-> "medical", device_name |-> "pump3", action |-> "probe"],
      [device_type |-> "camera", device_name |-> "cam1", action |-> "scan",
       vuln |-> [type |-> "open_rtsp", location |-> "stream"]],
      [action |-> "pivot",
       vuln |-> [type |-> "weak_crypto", location |-> "firmware_update"]] }

RECURSIVE Chains(_)
Chains(n) ==
    IF n = 0 THEN {<<>>}
    ELSE Chains(n - 1) \cup { Append(c, st) : c \in Chains(n - 1), st \in Steps }

\* the registries a caller may pass: none, or a module for medical devices
Registries == { {}, {"medical"} }

\* self.device_name of the registered MedicalIoTModule
ModuleDevice == "Infusion Pump"

\* MedicalIoTModule.craft_exploit raises KeyError unless vuln has both keys
CraftRaises(vuln) == ~(Has(vuln, "type") /\ Has(vuln, "location"))

\* MedicalIoTModule._estimate_impact
EstimateImpact(vuln_type) ==
    CASE vuln_type = "buffer_overflow" ->
             "Possible silent dosage override or device crash."
      [] vuln_type = "hardcoded_credentials" ->
             "Remote access to device functions."
      [] vuln_type = "weak_crypto" ->
             "Firmware update interception or manipulation."
      [] OTHER -> "Unknown impact."

\* MedicalIoTModule.simulate_attack on the exploit crafted for vuln; the
\* random draw against success_rate is the input success
SimulateAttack(vuln, success) ==
    [target |-> ModuleDevice, vuln_type |-> vuln.type, success |-> success,
     impact |-> EstimateImpact(vuln.type),
     log |-> <<"Attack simulated on", ModuleDevice, "for", vuln.type>>]

\* lines 50-56: does the step go to a module
UsesModule(step) ==
    /\ Get(step, "device_type", "generic") \in exploit_modules
    /\ Has(step, "vuln")

\* lines 59-65
ModuleResult(step, sim) ==
    [device |-> Get(step, "device_name", "unknown"),
     action |-> Get(step, "action", "unknown"),
     success |-> Get(sim, "success", FALSE),
     impact |-> Get(sim, "impact", "N/A"),
     log |-> Get(sim, "log", <<>>)]

MockResult_Failed(step) ==
    [device |-> Get(step, "device_name", "unknown"),
     action |-> Get(step, "action", "unknown"),
     success |-> FALSE,
     impact |-> "Mock impact.",
     log |-> <<"Replayed", Get(step, "action", "unknown"), "on",
               Get(step, "device_name", "unknown"), "(mock)">>]

\* lines 67-73
MockResult(step) ==
    [device |-> Get(step, "device_name", "unknown"),
     action |-> Get(step, "action", "unknown"),
     success |-> TRUE,
     impact |-> "Mock impact.",
     log |-> <<"Replayed", Get(step, "action", "unknown"), "on",
               Get(step, "device_name", "unknown"), "(mock)">>]

InitChainVars ==
    /\ chain_steps \in Chains(MaxSteps)
    /\ exploit_modules \in Registries
    /\ cpc = "idle"
    /\ stepIdx = 0
    /\ results = <<>>
    /\ calls = <<>>

\* replay_chain, line 48, called directly or from automate_chain_replay,
\* line 146
ReplayStart ==
    /\ cpc \in {"idle", "loaded"}
    /\ results' = <<>>
    /\ stepIdx' = 0
    /\ cpc' = "loop"
    /\ UNCHANGED <<chain_steps, exploit_modules, calls>>
    /\ UNCHANGED <<flowVars, scenVars, thrVars, logVars, genVars, hilVars>>

\* one turn of the for loop, lines 49-75
ReplayStep(success) ==
    /\ cpc = "loop"
    /\ stepIdx < Len(chain_steps)
    /\ LET step == chain_steps[stepIdx + 1]
       IN  IF UsesModule(step)
           THEN IF CraftRaises(step.vuln)
                THEN /\ calls' = Append(calls, <<"craft_exploit", stepIdx + 1>>)
                     /\ cpc' = "raised"
                     /\ UNCHANGED <<results, stepIdx>>
                ELSE /\ calls' = calls \o <<<<"craft_exploit", stepIdx + 1>>,
                                            <<"simulate_attack", stepIdx + 1,
                                              SimulateAttack(step.vuln, success)>>>>
                     /\ results' =
                            Append(results,
                                   ModuleResult(step,
                                                SimulateAttack(step.vuln, success)))
                     /\ stepIdx' = stepIdx + 1
                     /\ UNCHANGED cpc
           ELSE /\ results' = Append(results, MockResult(step))
                /\ stepIdx' = stepIdx + 1
                /\ UNCHANGED <<cpc, calls>>
    /\ UNCHANGED <<chain_steps, exploit_modules>>
    /\ UNCHANGED <<flowVars, scenVars, thrVars, logVars, genVars, hilVars>>

\* line 76: the loop is over
ReplayReturn ==
    /\ cpc = "loop"
    /\ stepIdx = Len(chain_steps)
    /\ cpc' = "completed"
    /\ UNCHANGED <<chain_steps, exploit_modules, stepIdx, results, calls>>
    /\ UNCHANGED <<flowVars, scenVars, thrVars, logVars, genVars, hilVars>>

-----------------------------------------------------------------------------
(* AttackReplay.automate_chain_replay: load, replay, analyze, report *)

NoSource == [kind |-> "none"]
NoSummary == [unset |-> TRUE]
NoReport == [absent |-> TRUE]

\* what the JSON chain file may hold
ChainData ==
    { [name |-> "t1", chain_steps |-> c] : c \in Chains(MaxSteps) }
        \cup { [chain_steps |-> c] : c \in Chains(1) }
        \cup { [name |-> "t2"] }

\* what chain_path may point at: no file, a file that is not JSON, a JSON file
ChainFiles ==
    { [kind |-> "missing"], [kind |-> "garbled"] }
        \cup { [kind |-> "json", data |-> d] : d \in ChainData }

Successes_CountAll(res) == Len(res)

\* sum(1 for r in results if r["success"])
Successes(res) == Cardinality({ i \in 1..Len(res) : res[i].success })

\* AttackReplay.analyze_results
AnalyzeResults(res) ==
    [chain_name |-> chain_name,
     total_steps |-> Len(res),
     successes |-> Successes(res),
     failures |-> Len(res) - Successes(res),
     impacts |-> [i \in 1..Len(res) |-> res[i].impact],
     overall_success |-> (Successes(res) = Len(res))]

\* the report dict of AttackReplay.generate_report, lines 111-115
ReportOf(res, sum) == [chain_name |-> chain_name, results |-> res, summary |-> sum]

-----------------------------------------------------------------------------
(* json.dump and json.load on the report *)

\* JSON text is a sequence of tokens
Tok(t) == [t |-> t]

JsonNoText == <<>>

\* a str
JsonStr(x) == <<[t |-> "str", v |-> x]>>

\* an int
JsonNum(n) == <<[t |-> "num", v |-> n]>>

JsonBool_Truthy(b) == <<Tok("true")>>

\* True and False
JsonBool(b) == <<Tok(IF b THEN "true" ELSE "false")>>

\* the texts of items, separated by commas
RECURSIVE JsonJoin(_)
JsonJoin(items) ==
    IF items = <<>> THEN <<>>
    ELSE IF Len(items) = 1 THEN items[1]
    ELSE items[1] \o <<Tok(",")>> \o JsonJoin(Tail(items))

\* a list, items being the texts of its elements
JsonArr(items) == <<Tok("[")>> \o JsonJoin(items) \o <<Tok("]")>>

\* a dict, members being <<key, text of the value>> in insertion order
JsonObj(members) ==
    <<Tok("{")>>
        \o JsonJoin([i \in 1..Len(members) |->
                        JsonStr(members[i][1]) \o <<Tok(":")>> \o members[i][2]])
        \o <<Tok("}")>>

\* one step result, lines 59-73
DumpResult(r) ==
    JsonObj(<< <<"device", JsonStr(r.device)>>,
               <<"action", JsonStr(r.action)>>,
               <<"success", JsonBool(r.success)>>,
               <<"impact", JsonStr(r.impact)>>,
               <<"log", JsonStr(r.log)>> >>)

\* the summary dict of analyze_results
DumpSummary(sum) ==
    JsonObj(<< <<"chain_name", JsonStr(sum.chain_name)>>,
               <<"total_steps", JsonNum(sum.total_steps)>>,
               <<"successes", JsonNum(sum.successes)>>,
               <<"failures", JsonNum(sum.failures)>>,
               <<"impacts", JsonArr([i \in 1..Len(sum.impacts) |->
                                        JsonStr(sum.impacts[i])])>>,
               <<"overall_success", JsonBool(sum.overall_success)>> >>)

\* json.dump(report, f), line 119
DumpReport(rep) ==
    JsonObj(<< <<"chain_name", JsonStr(rep.chain_name)>>,
               <<"results", JsonArr([i \in 1..Len(rep.results) |->
                                        DumpResult(rep.results[i])])>>,
               <<"summary", DumpSummary(rep.summary)>> >>)

\* json.load: the value that starts at token i of toks, and the position
\* after it
RECURSIVE ParseValue(_, _)
RECURSIVE ParseItems(_, _, _)
RECURSIVE ParseMembers(_, _, _)

ParseValue(toks, i) ==
    CASE toks[i].t \in {"str", "num"} -> [val |-> toks[i].v, next |-> i + 1]
      [] toks[i].t = "true" -> [val |-> TRUE, next |-> i + 1]
      [] toks[i].t = "false" -> [val |-> FALSE, next |-> i + 1]
      [] toks[i].t = "[" -> ParseItems(toks, i + 1, <<>>)
      [] toks[i].t = "{" -> ParseMembers(toks, i + 1, <<>>)

\* the elements of a list up to its closing bracket
ParseItems(toks, i, acc) ==
    IF toks[i].t = "]" THEN [val |-> acc, next |-> i + 1]
    ELSE LET item == ParseValue(toks, i)
             j == IF toks[item.next].t = "," THEN item.next + 1 ELSE item.next
         IN  ParseItems(toks, j, Append(acc, item.val))

\* the members of a dict up to its closing brace; a repeated key keeps the
\* last value
ParseMembers(toks, i, acc) ==
    IF toks[i].t = "}" THEN [val |-> acc, next |-> i + 1]
    ELSE LET member == ParseValue(toks, i + 2)
             j == IF toks[member.next].t = "," THEN member.next + 1
                  ELSE member.next
         IN  ParseMembers(toks, j, (toks[i].v :> member.val) @@ acc)

\* json.load(f) on a file holding toks
JsonLoad(toks) == ParseValue(toks, 1).val

\* what a call has returned: nothing yet, or a str; "" is the empty text
NoReturn == [returned |-> FALSE]
Returned(value) == [returned |-> TRUE, value |-> value]
EmptyStr == <<>>

\* the default output_path of generate_report, line 117
ReportPath(name) == <<name, "_attackreplay_report.json">>

InitFlowVars ==
    /\ chain_name = "UnnamedChain"
    /\ source = NoSource
    /\ auto = FALSE
    /\ summary = NoSummary
    /\ report = NoReport
    /\ reportFile = JsonNoText
    /\ ret = NoReturn

\* automate_chain_replay, lines 143-145, with load_chain, on an instance
\* that was constructed without a configuration
AutomateLoad(file) ==
    /\ cpc = "idle"
    /\ chain_steps = <<>>
    /\ source' = file
    /\ auto' = TRUE
    /\ CASE file.kind = "missing" ->
              /\ cpc' = "aborted"
              /\ ret' = Returned(EmptyStr)
              /\ UNCHANGED <<chain_name, chain_steps>>
         [] file.kind = "garbled" ->
              /\ cpc' = "load_raised"
              /\ UNCHANGED <<chain_name, chain_steps, ret>>
         [] file.kind = "json" ->
              /\ chain_name' = Get(file.data, "name", "UnnamedChain")
              /\ chain_steps' = Get(file.data, "chain_steps", <<>>)
              /\ cpc' = "loaded"
              /\ UNCHANGED ret
    /\ UNCHANGED <<exploit_modules, stepIdx, results, calls, summary, report,
                   reportFile>>
    /\ UNCHANGED <<scenVars, thrVars, logVars, genVars, hilVars>>

\* KeyboardInterrupt delivered while replay_chain is in its loop: no handler
\* in replay_chain or automate_chain_replay, the call ends with the exception
ReplayCancel ==
    /\ cpc = "loop"
    /\ cpc' = "cancelled"
    /\ UNCHANGED <<chain_steps, exploit_modules, stepIdx, results, calls>>
    /\ UNCHANGED <<flowVars, scenVars, thrVars, logVars, genVars, hilVars>>

AutomateReportFails_Swallowed ==
    /\ cpc = "completed"
    /\ auto
    /\ summary' = AnalyzeResults(results)
    /\ ret' = Returned(ReportPath(chain_name))
    /\ cpc' = "reported"
    /\ UNCHANGED <<chain_steps, exploit_modules, stepIdx, results, calls>>
    /\ UNCHANGED <<chain_name, source, auto, report, reportFile>>
    /\ UNCHANGED <<scenVars, thrVars, logVars, genVars, hilVars>>

\* automate_chain_replay, lines 147-150: analyze, write the report, return
\* its path
AutomateReport ==
    /\ cpc = "completed"
    /\ auto
    /\ summary' = AnalyzeResults(results)
    /\ report' = ReportOf(results, AnalyzeResults(results))
    /\ reportFile' = DumpReport(ReportOf(results, AnalyzeResults(results)))
    /\ ret' = Returned(ReportPath(chain_name))
    /\ cpc' = "reported"
    /\ UNCHANGED <<chain_steps, exploit_modules, stepIdx, results, calls>>
    /\ UNCHANGED <<chain_name, source, auto>>
    /\ UNCHANGED <<scenVars, thrVars, logVars, genVars, hilVars>>

\* lines 147-148 with open() failing at line 118, or a write failing at
\* line 119 after the first characters: the exception leaves generate_report
\* and automate_chain_replay
AutomateReportFails ==
    /\ cpc = "completed"
    /\ auto
    /\ summary' = AnalyzeResults(results)
    /\ \E n \in {0, 1} :
         reportFile' =
             SubSeq(DumpReport(ReportOf(results, AnalyzeResults(results))), 1, n)
    /\ cpc' = "report_raised"
    /\ UNCHANGED <<chain_steps, exploit_modules, stepIdx, results, calls>>
    /\ UNCHANGED <<chain_name, source, auto, report, ret>>
    /\ UNCHANGED <<scenVars, thrVars, logVars, genVars, hilVars>>

-----------------------------------------------------------------------------
(* ScenarioBuilder.automate_red_team_workflow: validate, plan, simulate,     *)
(* report                                                                    *)

\* Python's None, as dict.get returns it for an absent key
PyNone == "<None>"

\* device profiles a scenario may declare
PumpDevice == [name |-> "pump1", type |-> "medical"]
CamDevice == [name |-> "cam1", type |-> "camera"]
TwinDevice == [name |-> "pump1", type |-> "camera"]
NamelessDevice == [type |-> "medical"]

DeviceLists ==
    { <<>>, <<PumpDevice>>, <<PumpDevice, CamDevice>>,
      <<PumpDevice, TwinDevice>>, <<NamelessDevice, CamDevice>> }

\* attack steps as the scenario gives them; an absent key is an absent field
ScenSteps ==
    { [device |-> "pump1", action |-> "exploit",
       params |-> [vuln |-> [type |-> "buffer_overflow",
                             location |-> "dose_control"]]],
      [device |-> "pump1", action |-> "exploit",
       params |-> [vuln |-> [type |-> "buffer_overflow"]]],
      [device |-> "ghost", action |-> "scan"],
      [device |-> "cam1", action |-> "scan"],
      [action |-> "pivot"] }

RECURSIVE ScenChains(_)
ScenChains(n) ==
    IF n = 0 THEN {<<>>}
    ELSE ScenChains(n - 1)
             \cup { Append(c, st) : c \in ScenChains(n - 1), st \in ScenSteps }

\* [d.get("name") for d in self.devices]
DeviceNames == [i \in 1..Len(devices) |-> Get(devices[i], "name", PyNone)]

\* len(set(device_names))
Distinct(seq) == Cardinality({ seq[i] : i \in 1..Len(seq) })

\* ScenarioBuilder.validate_scenario
ValidateScenario ==
    IF scenario_name = "" \/ devices = <<>> \/ attack_chain = <<>>
    THEN FALSE
    ELSE IF Len(DeviceNames) # Distinct(DeviceNames)
    THEN FALSE
    ELSE TRUE

\* next((d for d in self.devices if d.get("name") == device_name), None):
\* the positions that match; the first one is taken
Matching(device_name) ==
    { i \in 1..Len(devices) : Get(devices[i], "name", PyNone) = device_name }

First(S) == CHOOSE i \in S : \A j \in S : i <= j

\* lines 72-76
PlanStep(step, device) ==
    [device |-> device,
     action |-> Get(step, "action", PyNone),
     params |-> Get(step, "params", <<>>)]

\* the for loop of build_execution_plan over the steps of chain
RECURSIVE PlanOf(_)
PlanOf(chain) ==
    IF chain = <<>> THEN <<>>
    ELSE LET step == Head(chain)
             found == Matching(Get(step, "device", PyNone))
         IN  IF found = {} \/ DOMAIN devices[First(found)] = {}
             THEN PlanOf(Tail(chain))
             ELSE <<PlanStep(step, devices[First(found)])>>
                      \o PlanOf(Tail(chain))

\* ScenarioBuilder.build_execution_plan
BuildExecutionPlan == PlanOf(attack_chain)

\* simulate_scenario, lines 92-99: does the plan step go to a module
ScenUsesModule(step) ==
    /\ Get(step.device, "type", "generic") \in exploit_modules
    /\ Has(Get(step, "params", <<>>), "vuln")

\* lines 102-109
ScenModuleResult(step, sim) ==
    [device |-> Get(step.device, "name", PyNone),
     action |-> step.action,
     params |-> step.params,
     success |-> Get(sim, "success", FALSE),
     impact |-> Get(sim, "impact", "N/A"),
     log |-> Get(sim, "log", <<>>)]

\* lines 111-118
ScenMockResult(step) ==
    [device |-> Get(step.device, "name", PyNone),
     action |-> step.action,
     params |-> step.params,
     success |-> TRUE,
     impact |-> "Mock impact.",
     log |-> <<"Simulated", step.action, "on",
               Get(step.device, "name", PyNone), "(mock)">>]

NoPlan == <<>>

\* what validate_scenario has returned: nothing yet, or a bool
NoVerdict == [called |-> FALSE]
Verdict(value) == [called |-> TRUE, value |-> value]

InitScenVars ==
    /\ scenario_name \in {"drill", ""}
    /\ devices \in DeviceLists
    /\ attack_chain \in ScenChains(MaxSteps)
    /\ spc = "idle"
    /\ plan = NoPlan
    /\ sIdx = 0
    /\ sresults = <<>>
    /\ sreport = NoReport
    /\ verdict = NoVerdict
    /\ validations = 0

ValidateCall_Dedup ==
    /\ spc = "idle"
    /\ validations < MaxValidations
    /\ verdict' = Verdict(ValidateScenario)
    /\ validations' = validations + 1
    /\ devices' = IF Len(devices) >= 2 THEN <<devices[1]>> ELSE devices
    /\ UNCHANGED <<scenario_name, attack_chain, spc, plan, sIdx, sresults,
                   sreport>>
    /\ UNCHANGED <<chainVars, flowVars, thrVars, logVars, genVars, hilVars>>

\* validate_scenario called on its own, before the workflow
ValidateCall ==
    /\ spc = "idle"
    /\ validations < MaxValidations
    /\ verdict' = Verdict(ValidateScenario)
    /\ validations' = validations + 1
    /\ UNCHANGED <<scenario_name, devices, attack_chain, spc, plan, sIdx,
                   sresults, sreport>>
    /\ UNCHANGED <<chainVars, flowVars, thrVars, logVars, genVars, hilVars>>

ScenValidate_NoAbort ==
    /\ spc = "idle"
    /\ spc' = "validated"
    /\ verdict' = Verdict(ValidateScenario)
    /\ validations' = validations + 1
    /\ UNCHANGED <<scenario_name, devices, attack_chain, plan, sIdx, sresults,
                   sreport>>
    /\ UNCHANGED <<chainVars, flowVars, thrVars, logVars, genVars, hilVars>>

\* automate_red_team_workflow, lines 131-133, with validate_scenario
ScenValidate ==
    /\ spc = "idle"
    /\ spc' = IF ValidateScenario THEN "validated" ELSE "aborted"
    /\ verdict' = Verdict(ValidateScenario)
    /\ validations' = validations + 1
    /\ UNCHANGED <<scenario_name, devices, attack_chain, plan, sIdx, sresults,
                   sreport>>
    /\ UNCHANGED <<chainVars, flowVars, thrVars, logVars, genVars, hilVars>>

\* line 134, with build_execution_plan
ScenPlan ==
    /\ spc = "validated"
    /\ plan' = BuildExecutionPlan
    /\ spc' = "planned"
    /\ UNCHANGED <<scenario_name, devices, attack_chain, sIdx, sresults,
                   sreport>>
    /\ UNCHANGED <<valVars, chainVars, flowVars, thrVars, logVars, genVars, hilVars>>

\* line 135 and simulate_scenario, line 90
ScenSimStart ==
    /\ spc = "planned"
    /\ sresults' = <<>>
    /\ sIdx' = 0
    /\ spc' = "loop"
    /\ UNCHANGED <<scenario_name, devices, attack_chain, plan, sreport>>
    /\ UNCHANGED <<valVars, chainVars, flowVars, thrVars, logVars, genVars, hilVars>>

\* one turn of the for loop of simulate_scenario, lines 91-120
ScenSimStep(success) ==
    /\ spc = "loop"
    /\ sIdx < Len(plan)
    /\ LET step == plan[sIdx + 1]
       IN  IF ScenUsesModule(step)
           THEN IF CraftRaises(step.params.vuln)
                THEN /\ calls' = Append(calls, <<"craft_exploit", sIdx + 1>>)
                     /\ spc' = "raised"
                     /\ UNCHANGED <<sresults, sIdx>>
                ELSE /\ calls' = calls \o <<<<"craft_exploit", sIdx + 1>>,
                                            <<"simulate_attack", sIdx + 1,
                                              SimulateAttack(step.params.vuln,
                                                             success)>>>>
                     /\ sresults' =
                            Append(sresults,
                                   ScenModuleResult(
                                       step,
                                       SimulateAttack(step.params.vuln, success)))
                     /\ sIdx' = sIdx + 1
                     /\ UNCHANGED spc
           ELSE /\ sresults' = Append(sresults, ScenMockResult(step))
                /\ sIdx' = sIdx + 1
                /\ UNCHANGED <<spc, calls>>
    /\ UNCHANGED <<scenario_name, devices, attack_chain, plan, sreport>>
    /\ UNCHANGED <<chain_steps, exploit_modules, cpc, stepIdx, results>>
    /\ UNCHANGED <<valVars, flowVars, thrVars, logVars, genVars, hilVars>>

\* simulate_scenario, line 121: the loop is over
ScenSimReturn ==
    /\ spc = "loop"
    /\ sIdx = Len(plan)
    /\ spc' = "completed"
    /\ UNCHANGED <<scenario_name, devices, attack_chain, plan, sIdx, sresults,
                   sreport>>
    /\ UNCHANGED <<valVars, chainVars, flowVars, thrVars, logVars, genVars, hilVars>>

\* lines 136-138 with ScenarioBuilder.generate_report
ScenReport ==
    /\ spc = "completed"
    /\ sreport' = [written |-> sresults]
    /\ spc' = "reported"
    /\ UNCHANGED <<scenario_name, devices, attack_chain, plan, sIdx, sresults>>
    /\ UNCHANGED <<valVars, chainVars, flowVars, thrVars, logVars, genVars, hilVars>>

\* line 136 with open() failing at line 151
ScenReportFails ==
    /\ spc = "completed"
    /\ spc' = "report_raised"
    /\ UNCHANGED <<scenario_name, devices, attack_chain, plan, sIdx, sresults,
                   sreport>>
    /\ UNCHANGED <<valVars, chainVars, flowVars, thrVars, logVars, genVars, hilVars>>

-----------------------------------------------------------------------------
(* Callers of run() that share one HILEmulator instance *)

NumCallers == 2

Callers == 1..NumCallers

\* the payloads a caller may pass to run()
CallerPayload == {NoPath, PayloadFile, OtherPayload}

InitThrVars ==
    /\ tpc = [t \in Callers |-> "idle"]
    /\ targ = [t \in Callers |-> NoPath]
    /\ tseen = [t \in Callers |-> NoPath]
    /\ tdir = [t \in Callers |-> 0]

\* run(payload), lines 39-44, by caller t: the payload goes into the
\* instance attribute
TRun(t, payload) ==
    /\ tpc[t] = "idle"
    /\ targ' = [targ EXCEPT ![t] = payload]
    /\ payload_path' = IF payload # NoPath THEN payload ELSE payload_path
    /\ tpc' = [tpc EXCEPT ![t] = "qemu"]
    /\ UNCHANGED <<tseen, tdir>>
    /\ UNCHANGED <<config, arch, firmware_path, fpga_enabled, files, tempDirs,
                   dirFiles, nextDir, procs, pc, runs, temp_dir, qemu_cmd,
                   proc, exc, result, dirsCreated, procsStarted>>
    /\ UNCHANGED <<arg, chainVars, flowVars, scenVars, logVars, genVars>>

\* _run_qemu, lines 55-59, by caller t
TEnter(t) ==
    /\ tpc[t] = "qemu"
    /\ IF ArtifactMissing(firmware_path) \/ ArtifactMissing(payload_path)
       THEN /\ tpc' = [tpc EXCEPT ![t] = "raised"]
            /\ UNCHANGED <<tempDirs, nextDir, tdir>>
       ELSE /\ nextDir' = nextDir + 1
            /\ tdir' = [tdir EXCEPT ![t] = nextDir + 1]
            /\ tempDirs' = tempDirs \cup {nextDir + 1}
            /\ tpc' = [tpc EXCEPT ![t] = "copy"]
    /\ UNCHANGED <<targ, tseen>>
    /\ UNCHANGED <<config, arch, firmware_path, payload_path, fpga_enabled,
                   files, dirFiles, procs, pc, runs, temp_dir, qemu_cmd, proc,
                   exc, result, dirsCreated, procsStarted>>
    /\ UNCHANGED <<arg, chainVars, flowVars, scenVars, logVars, genVars>>

\* lines 61-64 by caller t: the copies read the instance attributes
TCopy(t) ==
    /\ tpc[t] = "copy"
    /\ dirFiles' = CopyInto(CopyInto(dirFiles, tdir[t], firmware_path),
                            tdir[t], payload_path)
    /\ tseen' = [tseen EXCEPT ![t] = payload_path]
    /\ tpc' = [tpc EXCEPT ![t] = "emulate"]
    /\ UNCHANGED <<targ, tdir>>
    /\ UNCHANGED <<config, arch, firmware_path, payload_path, fpga_enabled,
                   files, tempDirs, nextDir, procs, pc, runs, temp_dir,
                   qemu_cmd, proc, exc, result, dirsCreated, procsStarted>>
    /\ UNCHANGED <<arg, chainVars, flowVars, scenVars, logVars, genVars>>

\* lines 65-81 by caller t: the emulation is over, finally removes the sandbox
TFinish(t) ==
    /\ tpc[t] = "emulate"
    /\ tempDirs' = tempDirs \ {tdir[t]}
    /\ dirFiles' = { f \in dirFiles : f.dir # tdir[t] }
    /\ tpc' = [tpc EXCEPT ![t] = "returned"]
    /\ UNCHANGED <<targ, tseen, tdir>>
    /\ UNCHANGED <<config, arch, firmware_path, payload_path, fpga_enabled,
                   files, nextDir, procs, pc, runs, temp_dir, qemu_cmd, proc,
                   exc, result, dirsCreated, procsStarted>>
    /\ UNCHANGED <<arg, chainVars, flowVars, scenVars, logVars, genVars>>

-----------------------------------------------------------------------------
(* The logging module shared by the instances of one process *)

\* the log files instances may name
LogNames == {"hil_emulator.log", "attack_replay_t1.log"}

NoLogs == [inst |-> 0]

InitLogVars ==
    /\ handler = "none"
    /\ logExists = {}
    /\ logText = [f \in LogNames |-> <<>>]
    /\ insts = <<>>
    /\ lruns = <<>>
    /\ got = NoLogs

\* logging.basicConfig(filename=f): does nothing when the root logger has a
\* handler already; else a FileHandler on f, which creates the file
BasicConfigFile(f) ==
    IF handler = "none"
    THEN /\ handler' = f
         /\ logExists' = logExists \cup {f}
    ELSE UNCHANGED <<handler, logExists>>

\* import of a module that calls logging.basicConfig() with no file name
\* (payload_generator.py:12): a handler on standard error
ImportConfigures ==
    /\ handler = "none"
    /\ handler' = "stderr"
    /\ UNCHANGED <<logExists, logText, insts, lruns, got>>
    /\ UNCHANGED <<genVars, chainVars, flowVars, scenVars, thrVars, hilVars>>

\* HILEmulator.__init__ lines 28-29, AttackReplay.__init__ lines 20-21: an
\* instance whose log_file is f
Construct(f) ==
    /\ Len(insts) < MaxInsts
    /\ insts' = Append(insts, [log_file |-> f])
    /\ lruns' = Append(lruns, 0)
    /\ BasicConfigFile(f)
    /\ UNCHANGED <<logText, got>>
    /\ UNCHANGED <<genVars, chainVars, flowVars, scenVars, thrVars, hilVars>>

RECURSIVE SumRuns(_)
SumRuns(counts) ==
    IF counts = <<>> THEN 0 ELSE Head(counts) + SumRuns(Tail(counts))

\* a run of instance i calls logging.info: the entry goes where the root
\* logger writes
LogRun(i) ==
    /\ SumRuns(lruns) < MaxLogRuns
    /\ lruns' = [lruns EXCEPT ![i] = @ + 1]
    /\ logText' = IF handler \in LogNames
                  THEN [logText EXCEPT ![handler] =
                            Append(@, [inst |-> i, run |-> lruns[i] + 1])]
                  ELSE logText
    /\ UNCHANGED <<handler, logExists, insts, got>>
    /\ UNCHANGED <<genVars, chainVars, flowVars, scenVars, thrVars, hilVars>>

\* get_logs of instance i: the content of its own log_file, "" without it
GetLogs(i) ==
    /\ got' = [inst |-> i,
               runs |-> lruns[i],
               text |-> IF insts[i].log_file \in logExists
                        THEN logText[insts[i].log_file]
                        ELSE <<>>]
    /\ UNCHANGED <<handler, logExists, logText, insts, lruns>>
    /\ UNCHANGED <<genVars, chainVars, flowVars, scenVars, thrVars, hilVars>>

-----------------------------------------------------------------------------
(* PayloadGenerator.generate *)

\* str.encode() on one character of the texts used here
Ascii(c) ==
    IF \E i \in 1..Len(LowerCase) : LowerCase[i] = c
    THEN 96 + (CHOOSE i \in 1..Len(LowerCase) : LowerCase[i] = c)
    ELSE IF \E i \in 1..Len(UpperCase) : UpperCase[i] = c
    THEN 64 + (CHOOSE i \in 1..Len(UpperCase) : UpperCase[i] = c)
    ELSE 95

\* str.encode()
Encode(text) == [i \in 1..Len(text) |-> Ascii(text[i])]

\* a ^ b on bytes, bit by bit
RECURSIVE XorBits(_, _, _)
XorBits(a, b, n) ==
    IF n = 0 THEN 0
    ELSE (((a % 2) + (b % 2)) % 2) + 2 * XorBits(a \div 2, b \div 2, n - 1)

\* self.supported_archs
SupportedGenArchs == { <<"a","r","m">>, <<"r","i","s","c","v">>,
                       <<"m","i","p","s">>, <<"f","p","g","a">> }

\* None for an optional str argument
NoText == <<"<None>">>

\* self.vendor_headers.get(arch, b"\x00HDR")
VendorHeader(a) ==
    CASE a = <<"a","r","m">> -> <<127>> \o Encode(<<"A","R","M","H","D","R">>)
      [] a = <<"r","i","s","c","v">> ->
             <<127>> \o Encode(<<"R","I","S","C","V","H","D","R">>)
      [] a = <<"m","i","p","s">> ->
             <<127>> \o Encode(<<"M","I","P","S","H","D","R">>)
      [] a = <<"f","p","g","a">> ->
             <<127>> \o Encode(<<"F","P","G","A","H","D","R">>)
      [] OTHER -> <<0>> \o Encode(<<"H","D","R">>)

\* cross_compile
CrossCompile(a, source_code) ==
    Encode(source_code) \o Encode(<<"_","B","I","N","_">>) \o Encode(a)

\* adapt_to_vendor_header
AdaptToVendorHeader(a, payload, vendor) ==
    IF vendor # NoText /\ vendor # <<>>
    THEN VendorHeader(a) \o Encode(vendor) \o payload
    ELSE VendorHeader(a) \o payload

\* xor_obfuscate with the key drawn: b ^ key on each of the 8-bit bytes
XorObfuscate(payload, key) ==
    [i \in 1..Len(payload) |-> XorBits(payload[i], key, 8)]

RopGadgets == Encode(<<"R","O","P","_","C","H","A","I","N","_",
                       "G","A","D","G","E","T","S">>)

\* rop_chain_obfuscate: the gadgets, the payload, rop_gadgets[::-1]
RopChainObfuscate(payload) ==
    RopGadgets \o payload
        \o [i \in 1..Len(RopGadgets) |-> RopGadgets[Len(RopGadgets) + 1 - i]]

\* generate, lines 59-68, for a supported architecture
GenerateBytes(a, source_code, vendor, obfuscate, rop, key) ==
    LET \* f"exploit_{arch}_payload"
        src == IF source_code = NoText
               THEN <<"e","x","p","l","o","i","t","_">> \o a
                        \o <<"_","p","a","y","l","o","a","d">>
               ELSE source_code
        adapted == AdaptToVendorHeader(a, CrossCompile(a, src), vendor)
        hidden == IF obfuscate THEN XorObfuscate(adapted, key) ELSE adapted
    IN  IF rop THEN RopChainObfuscate(hidden) ELSE hidden

\* a call of generate: the supported architectures and one that is not
InitGenVars ==
    /\ gen_in \in [arch : SupportedGenArchs \cup {<<"z","x">>},
                    source_code : {NoText, <<"x">>},
                    vendor : {NoText, <<"V">>},
                    obfuscate : BOOLEAN,
                    rop : BOOLEAN]
    /\ gen_out = <<>>
    /\ gpc = "called"

\* generate returns
Generate(key) ==
    /\ gpc = "called"
    /\ gen_in.arch \in SupportedGenArchs
    /\ gen_out' = GenerateBytes(gen_in.arch, gen_in.source_code, gen_in.vendor,
                                gen_in.obfuscate, gen_in.rop, key)
    /\ gpc' = "returned"
    /\ UNCHANGED gen_in
    /\ UNCHANGED <<logVars, chainVars, flowVars, scenVars, thrVars, hilVars>>

\* generate, lines 57-58: ValueError for an unsupported architecture
GenerateRaises ==
    /\ gpc = "called"
    /\ gen_in.arch \notin SupportedGenArchs
    /\ gpc' = "raised"
    /\ UNCHANGED <<gen_in, gen_out>>
    /\ UNCHANGED <<logVars, chainVars, flowVars, scenVars, thrVars, hilVars>>

-----------------------------------------------------------------------------
(* Specifications *)

\* an emulator that is constructed and never run
IdleHILVars ==
    /\ config = [arch |-> "arm", firmware_path |-> NoPath,
                 payload_path |-> NoPath, fpga_enabled |-> FALSE]
    /\ arch = "arm"
    /\ firmware_path = NoPath
    /\ payload_path = NoPath
    /\ fpga_enabled = FALSE
    /\ files = {FirmwareFile, PayloadFile, OtherPayload}
    /\ tempDirs = {}
    /\ dirFiles = {}
    /\ nextDir = 0
    /\ procs = <<>>
    /\ pc = "idle"
    /\ runs = 0
    /\ arg = NoPath
    /\ temp_dir = 0
    /\ qemu_cmd = NoCmd
    /\ proc = 0
    /\ exc = "none"
    /\ result = NoResult
    /\ dirsCreated = 0
    /\ procsStarted = 0

\* a replay that is constructed and never started
IdleChainVars ==
    /\ chain_steps = <<>>
    /\ exploit_modules = {}
    /\ cpc = "idle"
    /\ stepIdx = 0
    /\ results = <<>>
    /\ calls = <<>>

\* no AttackReplay instance: only the registry of modules exists
NoChainVars ==
    /\ chain_steps = <<>>
    /\ exploit_modules \in Registries
    /\ cpc = "off"
    /\ stepIdx = 0
    /\ results = <<>>
    /\ calls = <<>>

\* no ScenarioBuilder instance
NoScenVars ==
    /\ scenario_name = ""
    /\ devices = <<>>
    /\ attack_chain = <<>>
    /\ spc = "off"
    /\ plan = NoPlan
    /\ sIdx = 0
    /\ sresults = <<>>
    /\ sreport = NoReport
    /\ verdict = NoVerdict
    /\ validations = 0

\* no call of generate
IdleGenVars ==
    /\ gen_in = [arch |-> <<"a","r","m">>, source_code |-> NoText,
                 vendor |-> NoText, obfuscate |-> FALSE, rop |-> FALSE]
    /\ gen_out = <<>>
    /\ gpc = "off"

IdleOpsVars ==
    /\ IdleChainVars /\ InitFlowVars /\ NoScenVars
    /\ InitLogVars /\ IdleGenVars

InitHIL == InitHILVars /\ IdleOpsVars /\ InitThrVars

NextHIL ==
    \/ \E payload \in RunPayload : Run(payload)
    \/ RunFpga
    \/ QemuEnter
    \/ QemuCopy
    \/ QemuCopyFails
    \/ QemuBuild
    \/ QemuSpawn
    \/ QemuSpawnFails
    \/ \E text \in StderrTexts, rc \in {0, 1} : ChildExit(text, rc)
    \/ \E i \in 1..Len(procs) : OrphanExit(i)
    \/ QemuCommunicate
    \/ QemuTimeout
    \/ QemuExcept
    \/ QemuFinally
    \/ RunScore

SpecHIL == InitHIL /\ [][NextHIL]_vars

\* one chain run: an AttackReplay instance, or a ScenarioBuilder instance
InitChain ==
    /\ \/ InitChainVars /\ InitFlowVars /\ NoScenVars
       \/ NoChainVars /\ InitFlowVars /\ InitScenVars
    /\ IdleHILVars
    /\ InitThrVars
    /\ InitLogVars /\ IdleGenVars

NextChain ==
    \/ \E file \in ChainFiles : AutomateLoad(file)
    \/ ReplayStart
    \/ \E success \in BOOLEAN : ReplayStep(success)
    \/ ReplayReturn
    \/ ReplayCancel
    \/ AutomateReport
    \/ AutomateReportFails
    \/ ValidateCall
    \/ ScenValidate
    \/ ScenPlan
    \/ ScenSimStart
    \/ \E success \in BOOLEAN : ScenSimStep(success)
    \/ ScenSimReturn
    \/ ScenReport
    \/ ScenReportFails

SpecChain == InitChain /\ [][NextChain]_vars

\* an emulator on the process backend whose artifacts exist, shared by callers
InitConc ==
    /\ config \in [arch : {"arm"}, firmware_path : {FirmwareFile},
                   payload_path : ConfigPayload, fpga_enabled : {FALSE}]
    /\ arch = LowerArch(config.arch)
    /\ firmware_path = config.firmware_path
    /\ payload_path = config.payload_path
    /\ fpga_enabled = config.fpga_enabled
    /\ files = {FirmwareFile, PayloadFile, OtherPayload}
    /\ tempDirs = {}
    /\ dirFiles = {}
    /\ nextDir = 0
    /\ procs = <<>>
    /\ pc = "idle"
    /\ runs = 0
    /\ arg = NoPath
    /\ temp_dir = 0
    /\ qemu_cmd = NoCmd
    /\ proc = 0
    /\ exc = "none"
    /\ result = NoResult
    /\ dirsCreated = 0
    /\ procsStarted = 0
    /\ IdleOpsVars
    /\ InitThrVars

NextConc ==
    \/ \E t \in Callers, payload \in CallerPayload : TRun(t, payload)
    \/ \E t \in Callers : TEnter(t)
    \/ \E t \in Callers : TCopy(t)
    \/ \E t \in Callers : TFinish(t)

SpecConc == InitConc /\ [][NextConc]_vars

\* the instances of one process and the logging module they share
InitLog ==
    /\ InitLogVars
    /\ IdleGenVars
    /\ IdleChainVars /\ InitFlowVars /\ NoScenVars
    /\ IdleHILVars
    /\ InitThrVars

NextLog ==
    \/ ImportConfigures
    \/ \E f \in LogNames : Construct(f)
    \/ \E i \in 1..Len(insts) : LogRun(i)
    \/ \E i \in 1..Len(insts) : GetLogs(i)

SpecLog == InitLog /\ [][NextLog]_vars

\* one call of generate on each input
InitGen ==
    /\ InitGenVars
    /\ InitLogVars
    /\ IdleChainVars /\ InitFlowVars /\ NoScenVars
    /\ IdleHILVars
    /\ InitThrVars

NextGen ==
    \* random.randint(1, 255): the ends of the range and two keys between
    \/ \E key \in {1, 42, 127, 255} : Generate(key)
    \/ GenerateRaises

SpecGen == InitGen /\ [][NextGen]_vars



-----------------------------------------------------------------------------
(* Properties of the emulator, stated for SpecHIL *)

\* the process backend was entered and has left _run_qemu
QemuLeft == ~fpga_enabled /\ pc \in {"score", "returned", "raised"}

\* C1: an invocation of _run_qemu creates at most one sandbox directory; on
\* each path that gets past the artifact checks (normal completion, copy
\* failure, command-build failure, spawn failure, timeout) it has created
\* exactly one; and once the invocation has returned or raised, neither that
\* directory nor any file in it exists.
C1_SandboxRemoved ==
    /\ dirsCreated <= 1
    /\ Cardinality(tempDirs) <= 1
    /\ QemuLeft =>
         /\ tempDirs = {}
         /\ dirFiles = {}
         /\ pc # "raised" => (dirsCreated = 1 /\ temp_dir \notin tempDirs)
         /\ exc \in {"PermissionError", "ValueError", "OSError",
                     "TimeoutExpired"} => pc # "raised"

\* C1 witness: a run that timed out has returned, one directory was made and
\* it is gone
C1_Witness ==
    /\ pc = "returned"
    /\ exc = "TimeoutExpired"
    /\ dirsCreated = 1
    /\ temp_dir # 0
    /\ temp_dir \notin tempDirs

\* C2: when an invocation has returned, the child process it started is not
\* running any more (a timed-out child was killed and reaped), and an
\* invocation starts at most one child.
C2_ChildReapedBeforeReturn ==
    /\ procsStarted <= 1
    /\ (pc = "returned" /\ proc # 0) => procs[proc].state = "reaped"

\* C3: a timeout or a spawn failure does not leave run as an exception; run
\* returns a result whose exit status names the outcome and whose stderr
\* carries the failure message.
C3_FailureReturnedInStderr ==
    (exc \in {"TimeoutExpired", "OSError"} /\ pc \in {"returned", "raised"}) =>
        /\ pc = "returned"
        /\ Has(result, "returncode")
        /\ Has(result, "stderr")
        /\ result.stderr = Message(exc)

\* C4: a process-backend run with an unsupported architecture (its artifacts
\* present) ends in an unsupported-architecture error raised to the caller,
\* with no sandbox directory created and no process spawned.
C4_UnsupportedArchFailsEarly ==
    ( /\ arch \notin {"arm", "riscv", "mips"}
      /\ ~fpga_enabled
      /\ firmware_path \in files
      /\ payload_path \in files
      /\ pc \notin {"idle", "qemu"} ) =>
        /\ dirsCreated = 0
        /\ procsStarted = 0
        /\ pc = "raised"
        /\ exc = "ValueError"

C5_Absent(p) == p = <<>> \/ p \notin files

\* C5: a process-backend run whose firmware or payload is unset or does not
\* exist ends by raising the artifact-not-found error, and it has created no
\* sandbox directory and spawned no process.
C5_ArtifactNotFound ==
    ( /\ ~fpga_enabled
      /\ pc \notin {"idle", "qemu"}
      /\ (C5_Absent(firmware_path) \/ C5_Absent(payload_path)) ) =>
        /\ pc = "raised"
        /\ exc = "FileNotFoundError"
        /\ dirsCreated = 0
        /\ procsStarted = 0
        /\ temp_dir = 0
        /\ proc = 0

\* C5 witness: the firmware exists, the payload passed to run does not, and
\* the run has raised without a directory or a process
C5_Witness ==
    /\ pc = "raised"
    /\ exc = "FileNotFoundError"
    /\ firmware_path \in files
    /\ payload_path = MissingFile
    /\ dirsCreated = 0
    /\ procsStarted = 0

\* C6: every risk score attached to a result, of either backend and of an
\* error result too, lies in [0.0, 1.0] (0..10 tenths), and a returned result
\* has one.
C6_RiskInUnitInterval ==
    /\ Has(result, "risk_score") =>
         (result.risk_score >= 0 /\ result.risk_score <= 10)
    /\ pc = "returned" => Has(result, "risk_score")

\* C6 witness: a spawn failure was returned as an error result with a score
\* in range
C6_Witness ==
    /\ pc = "returned"
    /\ exc = "OSError"
    /\ Has(result, "error")
    /\ result.risk_score \in 0..10

\* the same letter, whatever its case
C7_SameLetter(a, b) ==
    \/ a = b
    \/ \E j \in 1..Len(UpperCase) : {a, b} = {UpperCase[j], LowerCase[j]}

\* word occurs in text, letter case ignored
C7_Occurs(word, text) ==
    \E i \in 0..(Len(text) - Len(word)) :
        \A k \in 1..Len(word) : C7_SameLetter(text[i + k], word[k])

\* C7: on a result with captured stderr the score is 0.9 when the stderr
\* holds "segfault" or "panic" in any letter case, also when it holds "error"
\* as well; else 0.7 when it holds "error" in any letter case; else 0.2.
C7_RuleOrder ==
    (Has(result, "risk_score") /\ Has(result, "stderr")) =>
        LET crash == \/ C7_Occurs(Segfault, result.stderr)
                     \/ C7_Occurs(Panic, result.stderr)
            err == C7_Occurs(ErrorTok, result.stderr)
        IN  /\ crash => result.risk_score = 9
            /\ (~crash /\ err) => result.risk_score = 7
            /\ (~crash /\ ~err) => result.risk_score = 2

\* C7 witness: stderr holds "Error" and then "segfault", and the score is 0.9
C7_Witness ==
    /\ pc = "returned"
    /\ Has(result, "stderr")
    /\ result.stderr = <<"E","r","r","o","r">> \o Segfault
    /\ result.risk_score = 9

\* C8: a run that ended in timeout or spawn failure returns a score of at
\* least 0.7.
C8_FailureScoresHigh ==
    (pc = "returned" /\ exc \in {"TimeoutExpired", "OSError"}) =>
        (Has(result, "risk_score") /\ result.risk_score >= 7)

\* C9: every result run returns, from either backend, an error result
\* included, carries a risk score.
C9_ScoreAttached ==
    pc = "returned" =>
        /\ result # NoResult
        /\ Has(result, "mode")
        /\ Has(result, "risk_score")

\* C9 witness: an error result (unsupported architecture) was returned with a
\* score attached
C9_Witness ==
    /\ pc = "returned"
    /\ exc = "ValueError"
    /\ Has(result, "error")
    /\ Has(result, "risk_score")

-----------------------------------------------------------------------------
(* Properties of the chain replay, stated for SpecChain *)

\* C10: a chain execution that has ended has produced exactly one result per
\* step, the result at position i describing step i; and while it runs, the
\* results so far are those of the first steps, in order, none skipped.
C10_OneResultPerStep ==
    /\ Len(results) = stepIdx
    /\ \A i \in 1..Len(results) :
         /\ results[i].device = Get(chain_steps[i], "device_name", "unknown")
         /\ results[i].action = Get(chain_steps[i], "action", "unknown")
    /\ cpc \in {"completed", "raised"} => Len(results) = Len(chain_steps)

\* C11 (as the specification states it): once some recorded step has
\* success = false the chain is still not stopped by a later step, a chain
\* that has ended has recorded every step, and the summary's overall_success
\* is false.
C11_FailOpen ==
    (\E i \in 1..Len(results) : ~results[i].success) =>
        /\ cpc # "raised"
        /\ cpc \in {"completed", "reported", "report_raised"} =>
               Len(results) = Len(chain_steps)
        /\ cpc = "reported" =>
               /\ summary.total_steps = Len(chain_steps)
               /\ summary.overall_success = FALSE

\* C12 (as the specification states it): a step whose module was called is
\* recorded whatever the module did, and the chain is not aborted by it.
C12_ModuleFailureRecorded ==
    cpc # "off" =>
        /\ cpc # "raised"
        /\ \A k \in 1..Len(calls) : calls[k][2] <= Len(results)

\* C13 (as the specification states it): a chain run by
\* automate_chain_replay and cancelled after k >= 1 completed steps has a
\* persisted report holding exactly those k results, with overall_success
\* computed from them.
C13_CancelPersistsPartial ==
    (cpc = "cancelled" /\ auto /\ stepIdx >= 1) =>
        /\ report # NoReport
        /\ report.results = results
        /\ Len(report.results) = stepIdx
        /\ report.summary.overall_success =
               (\A i \in 1..Len(results) : results[i].success)

-----------------------------------------------------------------------------
(* The phases of a chain run *)

\* the phase of an AttackReplay run
ReplayPhase(c) ==
    CASE c \in {"off", "idle"} -> "None"
      [] c = "loaded" -> "Loaded"
      [] c \in {"loop", "raised", "cancelled"} -> "Executing"
      [] c \in {"completed", "reported", "report_raised"} -> "Completed"
      [] c \in {"aborted", "load_raised"} -> "Aborted"

\* the phase of a ScenarioBuilder run: the scenario is loaded at construction
ScenPhase(c) ==
    CASE c = "off" -> "None"
      [] c = "idle" -> "Loaded"
      [] c = "validated" -> "Validated"
      [] c = "planned" -> "Planned"
      [] c \in {"loop", "raised"} -> "Executing"
      [] c \in {"completed", "reported", "report_raised"} -> "Completed"
      [] c = "aborted" -> "Aborted"

ChainPhase(c, sc) == IF sc # "off" THEN ScenPhase(sc) ELSE ReplayPhase(c)

PhaseRank(ph) ==
    CASE ph = "None" -> 0
      [] ph = "Loaded" -> 1
      [] ph = "Validated" -> 2
      [] ph = "Planned" -> 3
      [] ph = "Executing" -> 4
      [] ph = "Completed" -> 5
      [] ph = "Aborted" -> 6

\* the chain file could not be loaded, or the scenario is not valid
C14_LoadFailed == auto /\ source.kind \in {"missing", "garbled"}

C14_ValidationFailed == spc \notin {"off", "idle"} /\ ~ValidateScenario

\* after a failed load or validation: Aborted, nothing executed, no report
C14_AbortedClean ==
    /\ C14_LoadFailed =>
           /\ ReplayPhase(cpc) = "Aborted"
           /\ results = <<>> /\ calls = <<>> /\ stepIdx = 0
           /\ report = NoReport
    /\ C14_ValidationFailed =>
           /\ ScenPhase(spc) = "Aborted"
           /\ plan = NoPlan /\ sresults = <<>> /\ calls = <<>> /\ sIdx = 0
           /\ sreport = NoReport
    /\ ChainPhase(cpc, spc) = "Aborted" =>
           /\ results = <<>> /\ sresults = <<>> /\ calls = <<>>
           /\ report = NoReport /\ sreport = NoReport

\* one step of a run: forward only, Aborted entered before execution only,
\* Completed and Aborted never left
C14_Forward ==
    LET before == ChainPhase(cpc, spc)
        after == ChainPhase(cpc', spc')
    IN  /\ PhaseRank(before) <= PhaseRank(after)
        /\ before \in {"Completed", "Aborted"} => after = before
        /\ (after = "Aborted" /\ before # "Aborted") =>
               PhaseRank(before) <= PhaseRank("Planned")
        /\ after = "Completed" => before \in {"Executing", "Completed"}

\* C14: a chain run moves only forward through Loaded, Validated, Planned,
\* Executing and Completed; a run whose load or validation fails is Aborted,
\* with no step executed and no report written; Completed and Aborted are
\* never left.
C14_PhasesForwardOnly == []C14_AbortedClean /\ [][C14_Forward]_vars

\* a named scenario with steps whose validation failed on its devices
C14_Witness ==
    /\ spc = "aborted"
    /\ scenario_name # ""
    /\ attack_chain # <<>>
    /\ Len(devices) >= 2

\* C15 (as the specification states it): while a chain run by
\* automate_chain_replay is between two steps, the results of the steps
\* taken so far are in the persisted report.
C15_ResultPersistedBeforeNextStep ==
    (cpc = "loop" /\ auto /\ stepIdx >= 1) =>
        /\ report # NoReport
        /\ report.results = results

\* C17 (as the specification states it): load_chain fails for a missing or
\* undecodable file, and a chain it accepts has a name and at least one step.
C17_LoadRejectsMalformed ==
    /\ (auto /\ source.kind \in {"missing", "garbled"}) =>
           cpc \in {"aborted", "load_raised"}
    /\ (auto /\ cpc \notin {"aborted", "load_raised"}) =>
           /\ Has(source.data, "name")
           /\ Has(source.data, "chain_steps")
           /\ Len(chain_steps) >= 1

-----------------------------------------------------------------------------
(* Properties of concurrent callers, stated for SpecConc *)

\* C16 (as the specification states it): two callers that are inside
\* _run_qemu at once have different sandbox directories, and the payload a
\* caller's sandbox received is the payload that caller passed to run.
C16_RunsIsolated ==
    /\ \A t, u \in Callers :
         (t # u /\ tpc[t] \in {"copy", "emulate"} /\ tpc[u] \in {"copy", "emulate"})
             => tdir[t] # tdir[u]
    /\ \A t \in Callers :
         (tpc[t] \in {"emulate", "returned"} /\ targ[t] # NoPath)
             => tseen[t] = targ[t]

-----------------------------------------------------------------------------
(* Properties of the scenario workflow, stated for SpecChain *)

\* the names the scenario declares
C18_Declared == { Get(devices[i], "name", PyNone) : i \in 1..Len(devices) }

\* C18 (as the specification states it): a scenario that validation has
\* accepted has no two devices of the same name and no step that references
\* an undeclared device.
C18_ValidationRejectsDefects ==
    spc \notin {"off", "idle", "aborted"} =>
        /\ \A i, j \in 1..Len(devices) :
             i # j => Get(devices[i], "name", PyNone)
                          # Get(devices[j], "name", PyNone)
        /\ \A k \in 1..Len(attack_chain) :
             Has(attack_chain[k], "device") =>
                 attack_chain[k].device \in C18_Declared

\* the step's device reference resolves to a declared device
C19_Resolves(step) ==
    \E i \in 1..Len(devices) :
        Get(devices[i], "name", PyNone) = Get(step, "device", PyNone)

\* the plan is the resolvable steps in their order, each with the first
\* declared device of the referenced name
C19_PlanExact ==
    spc \in {"planned", "loop", "raised", "completed", "reported",
             "report_raised"} =>
        LET kept == SelectSeq(attack_chain, C19_Resolves)
        IN  /\ Len(plan) = Len(kept)
            /\ \A k \in 1..Len(kept) :
                 /\ plan[k].action = Get(kept[k], "action", PyNone)
                 /\ plan[k].params = Get(kept[k], "params", <<>>)
                 /\ \E i \in 1..Len(devices) :
                      /\ plan[k].device = devices[i]
                      /\ Get(devices[i], "name", PyNone)
                             = Get(kept[k], "device", PyNone)
                      /\ \A j \in 1..(i - 1) :
                           Get(devices[j], "name", PyNone)
                               # Get(kept[k], "device", PyNone)

\* C19 (as the specification states it): the plan is exactly the resolvable
\* steps, and when a step was dropped the steps that remain are all executed:
\* the workflow does not stop inside the plan and ends with one result per
\* plan step.
C19_ResolvedStepsPlannedAndExecuted ==
    /\ C19_PlanExact
    /\ (spc \notin {"off", "idle", "validated", "aborted"}
            /\ Len(plan) < Len(attack_chain)) =>
           /\ spc # "raised"
           /\ spc \in {"completed", "reported", "report_raised"} =>
                  Len(sresults) = Len(plan)

-----------------------------------------------------------------------------
(* Pass-through steps, stated for SpecChain *)

\* a chain step with no module registered for its device type, or no vuln
C20_PassThrough(step) ==
    \/ Get(step, "device_type", "generic") \notin exploit_modules
    \/ ~Has(step, "vuln")

\* the same for a plan step of a scenario
C20_ScenPassThrough(step) ==
    \/ Get(step.device, "type", "generic") \notin exploit_modules
    \/ ~Has(step.params, "vuln")

\* no module operation was called for step i
C20_NoCall(i) == \A k \in 1..Len(calls) : calls[k][2] # i

\* C20: a step with no registered module for its device type, or with no
\* vulnerability reference, is recorded with success = true and the mock
\* impact, no module operation is called for it, and it never stops the
\* chain: a chain stops only at a step that went to a module.
C20_PassThroughRecorded ==
    /\ \A i \in 1..Len(results) :
         C20_PassThrough(chain_steps[i]) =>
             /\ results[i].success = TRUE
             /\ results[i].impact = "Mock impact."
             /\ C20_NoCall(i)
    /\ cpc = "raised" => ~C20_PassThrough(chain_steps[stepIdx + 1])
    /\ (cpc = "completed" /\ \A i \in 1..Len(chain_steps) :
                                C20_PassThrough(chain_steps[i])) =>
           /\ Len(results) = Len(chain_steps)
           /\ calls = <<>>
    /\ \A i \in 1..Len(sresults) :
         C20_ScenPassThrough(plan[i]) =>
             /\ sresults[i].success = TRUE
             /\ sresults[i].impact = "Mock impact."
             /\ C20_NoCall(i)
    /\ spc = "raised" => ~C20_ScenPassThrough(plan[sIdx + 1])

\* a pass-through step of a device type that has a module (no vuln), recorded
\* first, and the chain went on to a step that was given to the module
C20_Witness ==
    /\ cpc = "completed"
    /\ Len(results) >= 2
    /\ Get(chain_steps[1], "device_type", "generic") \in exploit_modules
    /\ ~Has(chain_steps[1], "vuln")
    /\ results[1].success
    /\ calls # <<>>

-----------------------------------------------------------------------------
(* Further properties of the emulator, stated for SpecHIL *)

\* C26: an emulator in mock (FPGA) mode never starts a process and never
\* creates a sandbox directory; the result of a mock run carries the mode tag
\* "fpga", and no result of the process backend carries that tag.
C26_MockTagged ==
    /\ fpga_enabled =>
           /\ procsStarted = 0 /\ procs = <<>>
           /\ dirsCreated = 0 /\ nextDir = 0 /\ tempDirs = {}
    /\ (fpga_enabled /\ pc \in {"score", "returned"}) =>
           /\ Has(result, "mode")
           /\ result.mode = "fpga"
    /\ (~fpga_enabled /\ pc \in {"score", "returned"}) =>
           /\ Has(result, "mode")
           /\ result.mode # "fpga"

\* the second mock run of an emulator has returned its scored result
C26_Witness ==
    /\ fpga_enabled
    /\ pc = "returned"
    /\ runs = 2
    /\ result.mode = "fpga"
    /\ Has(result, "risk_score")

\* C27 (as the specification states it): the instance keeps the
\* architecture, firmware and backend mode of its configuration, and an
\* invocation of run that passes no payload uses the configured payload.
C27_ConfigNotMutated ==
    /\ arch = LowerArch(config.arch)
    /\ firmware_path = config.firmware_path
    /\ fpga_enabled = config.fpga_enabled
    /\ (runs >= 1 /\ arg = NoPath) => payload_path = config.payload_path

\* C30 (as the specification states it): once _run_qemu has copied two
\* different source files, the sandbox holds a copy of each, under the
\* source's base name and with the source's content, and the command built
\* from them names two different files.
C30_TwoDistinctCopies ==
    (~fpga_enabled /\ pc \in {"build", "spawn"}
         /\ firmware_path # payload_path) =>
        /\ \E f, g \in dirFiles :
             /\ f # g
             /\ f.dir = temp_dir /\ g.dir = temp_dir
             /\ f.base = Basename(firmware_path)
             /\ f.content = firmware_path
             /\ g.base = Basename(payload_path)
             /\ g.content = payload_path
        /\ pc = "spawn" => qemu_cmd.kernel # qemu_cmd.init

-----------------------------------------------------------------------------
(* Properties of the summary and the report, stated for SpecChain *)

\* the entries of res with success true, counted one by one
RECURSIVE C22_CountTrue(_)
C22_CountTrue(res) ==
    IF res = <<>> THEN 0
    ELSE (IF Head(res).success THEN 1 ELSE 0) + C22_CountTrue(Tail(res))

\* C22: the summary computed from a result sequence has total_steps equal to
\* its length, successes equal to the number of entries with success true,
\* failures equal to the rest, impacts equal to the entries' impact strings in
\* order, and overall_success true exactly when every entry succeeded.
C22_SummaryOfResults ==
    summary # NoSummary =>
        /\ summary.total_steps = Len(results)
        /\ summary.successes = C22_CountTrue(results)
        /\ summary.failures = Len(results) - C22_CountTrue(results)
        /\ Len(summary.impacts) = Len(results)
        /\ \A i \in 1..Len(results) : summary.impacts[i] = results[i].impact
        /\ summary.overall_success = (\A i \in 1..Len(results) : results[i].success)

\* the summary of outcomes [success, failure, success]
C22_Witness ==
    /\ summary # NoSummary
    /\ Len(results) = 3
    /\ results[1].success /\ ~results[2].success /\ results[3].success
    /\ summary.overall_success = FALSE

\* C23: the report file that was written, read back with json.load, holds as
\* many step results as the original result sequence and the same
\* overall-success value.
C23_ReportRoundTrip ==
    cpc = "reported" =>
        LET back == JsonLoad(reportFile)
        IN  /\ Len(back["results"]) = Len(results)
            /\ back["summary"]["overall_success"]
                   = (\A i \in 1..Len(results) : results[i].success)
            /\ back["summary"]["total_steps"] = Len(results)

\* a report of two or more results, one of them a failure, was written
C23_Witness ==
    /\ cpc = "reported"
    /\ Len(results) >= 2
    /\ \E i \in 1..Len(results) : ~results[i].success
    /\ Len(reportFile) > Len(results)

\* C24: when writing the report fails, automate_chain_replay ends with the
\* exception and returns nothing; a report path is returned only when the
\* whole report was written.
C24_WriteFailureSurfaced ==
    /\ cpc = "report_raised" =>
           /\ ret = NoReturn
           /\ report = NoReport
    /\ (ret # NoReturn /\ ret.value # EmptyStr) =>
           /\ cpc = "reported"
           /\ report # NoReport
           /\ reportFile = DumpReport(report)

\* the write failed after a chain of at least one step was replayed
C24_Witness ==
    /\ cpc = "report_raised"
    /\ Len(results) >= 1
    /\ ret = NoReturn

-----------------------------------------------------------------------------
(* Steps given to a module, stated for SpecChain *)

\* the calls of operation op made for step i, as positions in calls
C21_CallsFor(op, i) ==
    { k \in 1..Len(calls) : calls[k][1] = op /\ calls[k][2] = i }

\* step i was given to the module as the claim says: craft_exploit once,
\* then simulate_attack once, and res[i] carries what simulate_attack returned
C21_Delegated(i, res) ==
    /\ Cardinality(C21_CallsFor("craft_exploit", i)) = 1
    /\ Cardinality(C21_CallsFor("simulate_attack", i)) = 1
    /\ \A c \in C21_CallsFor("craft_exploit", i) :
         \A m \in C21_CallsFor("simulate_attack", i) :
             /\ c < m
             /\ i <= Len(res)
             /\ res[i].success = calls[m][3].success
             /\ res[i].impact = calls[m][3].impact
             /\ res[i].log = calls[m][3].log
             /\ (calls[m][3].success => res[i].success /\ res[i].impact # "")

\* the steps of the chain the loop has taken up, a step that raised included
C21_TakenUp == 1..(IF cpc = "raised" THEN stepIdx + 1 ELSE stepIdx)

C21_ScenTakenUp == 1..(IF spc = "raised" THEN sIdx + 1 ELSE sIdx)

\* on the steps that were recorded, the claim holds
C21_RecordedVerbatim ==
    /\ \A i \in 1..Len(results) :
         (Get(chain_steps[i], "device_type", "generic") \in exploit_modules
              /\ Has(chain_steps[i], "vuln")) => C21_Delegated(i, results)
    /\ \A i \in 1..Len(sresults) :
         (Get(plan[i].device, "type", "generic") \in exploit_modules
              /\ Has(plan[i].params, "vuln")) => C21_Delegated(i, sresults)

\* C21 (as the specification states it): every step that has a registered
\* module for its device type and a vulnerability reference, once the loop
\* has taken it up, has had craft_exploit and then simulate_attack called
\* for it, once each, and its result carries the success, impact and log that
\* simulate_attack returned.
C21_ModuleStepDelegated ==
    /\ \A i \in C21_TakenUp :
         (Get(chain_steps[i], "device_type", "generic") \in exploit_modules
              /\ Has(chain_steps[i], "vuln")) => C21_Delegated(i, results)
    /\ \A i \in C21_ScenTakenUp :
         (Get(plan[i].device, "type", "generic") \in exploit_modules
              /\ Has(plan[i].params, "vuln")) => C21_Delegated(i, sresults)

-----------------------------------------------------------------------------
(* Validation as an operation, stated for SpecChain *)

\* C28: a call of validate_scenario leaves the scenario name, the device
\* list and the attack chain as they were, and returns the verdict that the
\* call before it returned.
C28_ValidationPure ==
    [][ validations' # validations =>
            /\ scenario_name' = scenario_name
            /\ devices' = devices
            /\ attack_chain' = attack_chain
            /\ verdict'.called
            /\ verdict.called => verdict'.value = verdict.value ]_vars

\* the scenario was validated twice, the second time by the workflow
C28_Witness ==
    /\ validations >= 2
    /\ verdict.called
    /\ spc \in {"validated", "aborted"}
    /\ devices # <<>>

-----------------------------------------------------------------------------
(* Logs, stated for SpecLog *)

\* C25 (as the specification states it): what get_logs returns to an
\* instance holds the entries of the most recent run that instance had made
\* when it asked, and no entry of another instance.
C25_LogsPerTarget ==
    got # NoLogs =>
        /\ \A k \in 1..Len(got.text) : got.text[k].inst = got.inst
        /\ got.runs >= 1 =>
               \E k \in 1..Len(got.text) :
                   got.text[k] = [inst |-> got.inst, run |-> got.runs]

-----------------------------------------------------------------------------
(* Generated payloads, stated for SpecGen *)

\* bytes.startswith
C29_StartsWith(bytes, prefix) ==
    /\ Len(prefix) <= Len(bytes)
    /\ \A i \in 1..Len(prefix) : bytes[i] = prefix[i]

\* C29 (as the test states it): a payload generated for a supported
\* architecture with obfuscate=False begins with the architecture's vendor
\* header bytes, whatever rop and vendor are.
C29_StartsWithVendorHeader ==
    (gpc = "returned" /\ ~gen_in.obfuscate) =>
        C29_StartsWith(gen_out, VendorHeader(gen_in.arch))


=============================================================================
